---------------------------- MODULE Spec2Model ----------------------------
(***************************************************************************)
(* zen-target-docker: the docker_image and docker_container target types.  *)
(*                                                                         *)
(* Four specifications share the module's variables:                       *)
(*   SpecImage      DockerImageConfig.GetTargets and its build, deploy and *)
(*                  load scripts (src/image.go)                            *)
(*   SpecContainer  the deploy script of DockerContainerConfig, run        *)
(*                  repeatedly against one Docker Engine                   *)
(*                  (src/container.go, src/unnamed/part_000)               *)
(*   SpecPorts      GetPortBindings, one loop iteration per step           *)
(*   SpecEnv        DockerContainerConfig.GetTargets' labels and           *)
(*                  GetContainerEnv                                        *)
(* Each specification leaves the other parts' variables at their idle      *)
(* values.                                                                 *)
(***************************************************************************)
EXTENDS Integers, Sequences, FiniteSets, TLC

VARIABLES
    \* ---- docker_image ----
    dic,        \* the DockerImageConfig value captured by the script closures
    tcc,        \* TargetConfigContext.KnownToolchains
    tenv,       \* the target's environment (target.EnvVars() / target.Env)
    itarget,    \* what DockerImageConfig.GetTargets returned
    ipc,        \* position inside the running image script
    itag,       \* deploy script: index of the next tag to apply
    execLog,    \* target.Exec calls of the current script run: [args, ok]
    iresult,    \* what the last finished image script returned
    \* ---- docker_container deploy ----
    revision,   \* which revision of container.go is running
    dcc,        \* the DockerContainerConfig of the target
    engine,     \* the Docker Engine's container of name dcc.ContainerName
    cpc,        \* position inside the deploy Run function
    calls,      \* Docker Engine API calls of the current run: [api, ok]
    cresult,    \* what the last finished deploy run returned
    runs,       \* number of deploy runs started
    hist,       \* history of the runs: creates that succeeded, ...
    \* ---- GetPortBindings ----
    ports,      \* the entries of the ports map not yet iterated
    portsIn,    \* the ports map GetPortBindings was called with
    m,          \* the nat.PortMap being built
    presult,    \* "running", "ok", "err" or "panic"
    \* ---- GetContainerEnv ----
    etarget,    \* the target GetContainerEnv reads: Env, Labels, Srcs["_envs"]
    files,      \* the file system: file name -> content, for the files that exist
    epc,        \* "config", "target", "done"
    eresult     \* what GetContainerEnv returned

imageVars == <<dic, tcc, tenv, itarget, ipc, itag, execLog, iresult>>
containerVars == <<revision, dcc, engine, cpc, calls, cresult, runs, hist>>
portVars == <<ports, portsIn, m, presult>>
envVars == <<etarget, files, epc, eresult>>
vars == <<imageVars, containerVars, portVars, envVars>>

\* a nil pointer / absent value
NIL == "<nil>"

\* the two revisions of the container source in this repository
RevOld == "part_000"
RevNew == "container.go"

-----------------------------------------------------------------------------
(* Helpers *)

Range(f) == {f[x] : x \in DOMAIN f}

\* all sequences over S of length 0..n
RECURSIVE SeqsUpTo(_, _)
SeqsUpTo(S, n) ==
    IF n = 0 THEN {<<>>}
    ELSE LET shorter == SeqsUpTo(S, n - 1)
         IN  shorter \cup {Append(s, x) : s \in {t \in shorter : Len(t) = n - 1}, x \in S}

\* the orders in which a map's key set K may be iterated (Go leaves it unspecified)
Orders(K) == {s \in [1..Cardinality(K) -> K] : Range(s) = K}

-----------------------------------------------------------------------------
(* docker_image: DockerImageConfig.GetTargets and its scripts (src/image.go) *)

\* most tags a target configures
MaxTags == 2

Cwd == "/w"
TagNames == {"v1", "v2"}
ToolNames == {"buildx", "crane"}

\* a string with interpolation markers: pre followed by {ref} when ref is not ""
Templates == { [text |-> "1", pre |-> "1", ref |-> ""],
               [text |-> "{X}", pre |-> "", ref |-> "X"] }
BuildArgKeys == {"A", "B"}

\* utils.Interpolate: every {VAR} is replaced by the variable's value; a
\* reference to a variable that is not defined is an error
Interpolate(t, env) ==
    IF t.ref = "" THEN [ok |-> TRUE, val |-> t.pre]
    ELSE IF t.ref \in DOMAIN env THEN [ok |-> TRUE, val |-> t.pre \o env[t.ref]]
    ELSE [ok |-> FALSE, val |-> ""]

\* utils.InterpolateMap: every value interpolated, an error if any fails
InterpolateMap(args, env) ==
    IF \E k \in DOMAIN args : ~Interpolate(args[k], env).ok
    THEN [ok |-> FALSE, val |-> <<>>]
    ELSE [ok |-> TRUE, val |-> [k \in DOMAIN args |-> Interpolate(args[k], env).val]]

\* filepath.Join of a directory and one relative element: joined with a
\* separator and cleaned
JoinPath(dir, elem) ==
    IF elem = "" \/ elem = "." THEN dir ELSE dir \o "/" \o elem

ImageConfigs ==
    [ Image      : {"img"},
      Registry   : {NIL, "reg"},
      Tags       : SeqsUpTo(TagNames, MaxTags),
      Context    : {NIL, "ctx", "."},
      Dockerfile : {NIL},
      BuildArgs  : UNION {[K -> Templates] : K \in SUBSET BuildArgKeys},
      Buildx     : {NIL, "my-buildx"},
      Crane      : {NIL, "my-crane"} ]

KnownToolchainSets == UNION {[K -> {"host-tool"}] : K \in SUBSET ToolNames}
TargetEnvs ==
    UNION {[K -> {"val"}] : K \in SUBSET {"DOCKER_REGISTRY", "X"}}

NoTarget == [status |-> "none", Tools |-> <<>>, Srcs |-> <<>>, Scripts |-> <<>>]
NoResult == [script |-> "none", status |-> "none"]

InitImage ==
    /\ dic \in ImageConfigs
    /\ tcc \in KnownToolchainSets
    /\ tenv \in TargetEnvs
    /\ itarget = NoTarget
    /\ ipc = "config"
    /\ itag = 0
    /\ execLog = <<>>
    /\ iresult = NoResult
    \* the other parts stay idle
    /\ revision = NIL /\ dcc = NIL /\ engine = NIL /\ cpc = NIL
    /\ calls = <<>> /\ cresult = NIL /\ runs = 0 /\ hist = NIL
    /\ ports = {} /\ portsIn = {} /\ m = <<>> /\ presult = NIL
    /\ etarget = NIL /\ files = NIL /\ epc = NIL /\ eresult = NIL

\* image.go:47-64  the tool of a name: the per-target override, else the host's
ToolchainHostFirst(name, override) ==
    IF name \in DOMAIN tcc THEN [ok |-> TRUE, val |-> tcc[name]]
    ELSE IF override # NIL THEN [ok |-> TRUE, val |-> override]
    ELSE [ok |-> FALSE, val |-> ""]

ToolchainOf(name, override) ==
    IF override # NIL THEN [ok |-> TRUE, val |-> override]
    ELSE IF name \notin DOMAIN tcc THEN [ok |-> FALSE, val |-> ""]
    ELSE [ok |-> TRUE, val |-> tcc[name]]

\* image.go:79,108-109,143-144  the scripts of the target and their aliases
ImageScripts ==
    [ build  |-> [Alias |-> {}],
      deploy |-> [Alias |-> {"push"}],
      load   |-> [Alias |-> {"push"}] ]

\* DockerImageConfig.GetTargets
ImageGetTargets ==
    /\ ipc = "config"
    /\ LET bx == ToolchainOf("buildx", dic.Buildx)
           cr == ToolchainOf("crane", dic.Crane)
           d1 == [dic EXCEPT !.Dockerfile = IF @ = NIL THEN "Dockerfile" ELSE @]
       IN  IF ~bx.ok \/ ~cr.ok
           THEN /\ itarget' = [NoTarget EXCEPT !.status = "err"]
                /\ ipc' = "failed"
                /\ dic' = d1
           ELSE /\ dic' = [d1 EXCEPT !.Tags = IF Len(@) = 0 THEN <<"latest">> ELSE @]
                /\ itarget' = [ status  |-> "ok",
                                Tools   |-> [buildx |-> bx.val, crane |-> cr.val],
                                Srcs    |-> [dockerfile |-> <<d1.Dockerfile>>],
                                Scripts |-> ImageScripts ]
                /\ ipc' = "idle"
    /\ UNCHANGED <<tcc, tenv, itag, execLog, iresult>>
    /\ UNCHANGED <<containerVars, portVars, envVars>>

\* image.go:91-95  the fixed head of the build command
BuildHead(context) ==
    << itarget.Tools.buildx, "build", context,
       "--output", "type=docker,dest=" \o Cwd \o "/image.tar",
       "--file", itarget.Srcs.dockerfile[1] >>

\* image.go:101-103  the --build-arg pairs, in the order the map is iterated
RECURSIVE BuildArgPairs(_, _)
BuildArgPairs(order, imap) ==
    IF order = <<>> THEN <<>>
    ELSE << "--build-arg", Head(order) \o "=" \o imap[Head(order)] >>
         \o BuildArgPairs(Tail(order), imap)

\* image.go:91-103  the whole argument list
BuildArgsFlagsFirst(context, order, imap) ==
    LET h == BuildHead(context)
    IN  SubSeq(h, 1, 5) \o BuildArgPairs(order, imap) \o SubSeq(h, 6, 7)

BuildCommand(context, order, imap) ==
    BuildHead(context) \o BuildArgPairs(order, imap)

\* the build script's Run
BuildRun ==
    /\ ipc = "idle"
    /\ LET context == IF dic.Context # NIL THEN JoinPath(Cwd, dic.Context) ELSE Cwd
           interpol == InterpolateMap(dic.BuildArgs, tenv)
       IN  IF ~interpol.ok
           THEN /\ execLog' = <<>>
                /\ iresult' = [script |-> "build", status |-> "err"]
           ELSE \E order \in Orders(DOMAIN interpol.val), ok \in BOOLEAN :
                /\ execLog' = << [args |-> BuildCommand(context, order, interpol.val),
                                  ok |-> ok] >>
                /\ iresult' = [script |-> "build",
                               status |-> IF ok THEN "ok" ELSE "err"]
    /\ UNCHANGED <<dic, tcc, tenv, itarget, ipc, itag>>
    /\ UNCHANGED <<containerVars, portVars, envVars>>

\* image.go:122-125  the full references of the configured tags
RECURSIVE FullTags(_, _)
FullTags(d, tagList) ==
    IF tagList = <<>> THEN <<>>
    ELSE << d.Registry \o "/" \o d.Image \o ":" \o Head(tagList) >>
         \o FullTags(d, Tail(tagList))

\* image.go:114-120  the registry of a deploy: the configured one, else the
\* target env variable DOCKER_REGISTRY
RegistryEnvFirst(registry, env) ==
    IF "DOCKER_REGISTRY" \in DOMAIN env
    THEN [ok |-> TRUE, val |-> env["DOCKER_REGISTRY"]]
    ELSE IF registry # NIL THEN [ok |-> TRUE, val |-> registry]
    ELSE [ok |-> FALSE, val |-> NIL]

ResolveRegistry(registry, env) ==
    IF registry # NIL THEN [ok |-> TRUE, val |-> registry]
    ELSE IF "DOCKER_REGISTRY" \in DOMAIN env
    THEN [ok |-> TRUE, val |-> env["DOCKER_REGISTRY"]]
    ELSE [ok |-> FALSE, val |-> NIL]

\* image.go:111-120  deploy: the registry is resolved into dic.Registry
DeployBegin ==
    /\ ipc = "idle"
    /\ execLog' = <<>>
    /\ IF ~ResolveRegistry(dic.Registry, tenv).ok
       THEN /\ iresult' = [script |-> "deploy", status |-> "err"]
            /\ UNCHANGED <<dic, ipc, itag>>
       ELSE /\ dic' = [dic EXCEPT !.Registry = ResolveRegistry(@, tenv).val]
            /\ iresult' = [script |-> "deploy", status |-> "running"]
            /\ ipc' = "push"
            /\ itag' = 0
    /\ UNCHANGED <<tcc, tenv, itarget>>
    /\ UNCHANGED <<containerVars, portVars, envVars>>

\* image.go:126  the push command
KraneCmd ==
    << itarget.Tools.crane, "push", JoinPath(Cwd, "image.tar"),
       FullTags(dic, dic.Tags)[1] >>

\* image.go:132  the references the tag loop ranges over: tags[1:]
TagLoopAllTags(full) == full

TagLoop(full) == Tail(full)

\* image.go:133  the tag command of the i-th element of the loop
TagCmd(i) ==
    << itarget.Tools.crane, "tag", FullTags(dic, dic.Tags)[1],
       TagLoop(FullTags(dic, dic.Tags))[i] >>

\* image.go:128-130,134-136  whether the script goes on after an Exec
IgnoreExecError(ok) == TRUE

ContinueAfterExec(ok) == ok

\* image.go:128-130
DeployPush ==
    /\ ipc = "push"
    /\ \E ok \in BOOLEAN :
        /\ execLog' = Append(execLog, [args |-> KraneCmd, ok |-> ok])
        /\ IF ContinueAfterExec(ok)
           THEN /\ ipc' = "tag"
                /\ itag' = 1
                /\ UNCHANGED iresult
           ELSE /\ ipc' = "idle"
                /\ itag' = 0
                /\ iresult' = [script |-> "deploy", status |-> "err"]
    /\ UNCHANGED <<dic, tcc, tenv, itarget>>
    /\ UNCHANGED <<containerVars, portVars, envVars>>

\* image.go:132-137  one iteration of the loop over tags[1:]
DeployTag ==
    /\ ipc = "tag"
    /\ itag <= Len(TagLoop(FullTags(dic, dic.Tags)))
    /\ \E ok \in BOOLEAN :
        /\ execLog' = Append(execLog, [args |-> TagCmd(itag), ok |-> ok])
        /\ IF ContinueAfterExec(ok)
           THEN /\ itag' = itag + 1
                /\ UNCHANGED <<ipc, iresult>>
           ELSE /\ ipc' = "idle"
                /\ itag' = 0
                /\ iresult' = [script |-> "deploy", status |-> "err"]
    /\ UNCHANGED <<dic, tcc, tenv, itarget>>
    /\ UNCHANGED <<containerVars, portVars, envVars>>

\* image.go:139-140  the loop is over: the script returns nil
DeployReturn ==
    /\ ipc = "tag"
    /\ itag > Len(TagLoop(FullTags(dic, dic.Tags)))
    /\ ipc' = "idle"
    /\ itag' = 0
    /\ iresult' = [script |-> "deploy", status |-> "ok"]
    /\ UNCHANGED <<dic, tcc, tenv, itarget, execLog>>
    /\ UNCHANGED <<containerVars, portVars, envVars>>

\* image.go:153  the load command
LoadCmd ==
    << itarget.Tools.buildx, "load", JoinPath(Cwd, "image.tar"),
       FullTags(dic, dic.Tags)[1] >>

\* image.go:143-161  the load script's Run; *dic.Registry is dereferenced
\* without a nil check, which ends the process when no deploy has set it
LoadRun ==
    /\ ipc = "idle"
    /\ IF dic.Registry = NIL
       THEN /\ execLog' = <<>>
            /\ iresult' = [script |-> "load", status |-> "panic"]
            /\ ipc' = "crashed"
       ELSE \E ok \in BOOLEAN :
            /\ execLog' = << [args |-> LoadCmd, ok |-> ok] >>
            /\ iresult' = [script |-> "load", status |-> IF ok THEN "ok" ELSE "err"]
            /\ UNCHANGED ipc
    /\ UNCHANGED <<dic, tcc, tenv, itarget, itag>>
    /\ UNCHANGED <<containerVars, portVars, envVars>>

NextImage ==
    \/ ImageGetTargets
    \/ BuildRun
    \/ DeployBegin
    \/ DeployPush
    \/ DeployTag
    \/ DeployReturn
    \/ LoadRun

SpecImage == InitImage /\ [][NextImage]_vars

-----------------------------------------------------------------------------
(* docker_container: the deploy script's Run, repeated against one Docker    *)
(* Engine (src/container.go and its earlier revision src/unnamed/part_000)   *)

\* most deploy runs of one behaviour
MaxRuns == 3

\* what a container is made from: image, env, ports, volumes, command
ContainerSettings == {"settings-1", "settings-2"}

NoContainer == [exists |-> FALSE, settings |-> "none", started |-> FALSE]

\* the Docker Engine when the first run starts: no container of the name, or
\* one made earlier, from any settings, running or not
EngineStates ==
    {NoContainer} \cup [exists : {TRUE}, settings : ContainerSettings, started : BOOLEAN]

InitContainer ==
    /\ revision \in {RevOld, RevNew}
    /\ dcc \in [settings : ContainerSettings]
    /\ engine \in EngineStates
    /\ cpc = "idle"
    /\ calls = <<>>
    /\ cresult = "none"
    /\ runs = 0
    /\ hist = [atBegin |-> engine, creates |-> 0, starts |-> 0,
               succeeded |-> FALSE, afterSuccess |-> FALSE]
    \* the other parts stay idle
    /\ dic = NIL /\ tcc = NIL /\ tenv = NIL /\ itarget = NIL
    /\ ipc = NIL /\ itag = 0 /\ execLog = <<>> /\ iresult = NIL
    /\ ports = {} /\ portsIn = {} /\ m = <<>> /\ presult = NIL
    /\ etarget = NIL /\ files = NIL /\ epc = NIL /\ eresult = NIL

\* the run returns: nil ("ok"), an error ("err"), or the process panics
Return(status) ==
    /\ cpc' = "idle"
    /\ cresult' = status
    /\ hist' = [hist EXCEPT !.succeeded = @ \/ status = "ok"]

\* container.go:105 / part_000:83-90  the first Engine call of a run
FirstCall(rev) == IF rev = RevNew THEN "pull" ELSE "inspect"

\* container.go:95-101  the run starts: the client is created
RunBegin ==
    /\ cpc = "idle"
    /\ runs < MaxRuns
    /\ runs' = runs + 1
    /\ calls' = <<>>
    /\ \E clientOk \in BOOLEAN :
         IF clientOk
         THEN /\ cpc' = FirstCall(revision)
              /\ cresult' = "running"
              /\ hist' = [hist EXCEPT !.atBegin = engine, !.afterSuccess = hist.succeeded]
         ELSE /\ cpc' = "idle"
              /\ cresult' = "err"
              /\ hist' = [hist EXCEPT !.atBegin = engine, !.afterSuccess = hist.succeeded]
    /\ UNCHANGED <<revision, dcc, engine>>
    /\ UNCHANGED <<imageVars, portVars, envVars>>

\* container.go:105-111  ImagePull (commented out in part_000:83-90)
Pull ==
    /\ cpc = "pull"
    /\ \E ok \in BOOLEAN :
        /\ calls' = Append(calls, [api |-> "ImagePull", ok |-> ok])
        /\ IF ok
           THEN cpc' = "inspect" /\ UNCHANGED <<cresult, hist>>
           ELSE Return("err")
    /\ UNCHANGED <<revision, dcc, engine, runs>>
    /\ UNCHANGED <<imageVars, portVars, envVars>>

\* container.go:116  if err == nil: the container already exists
InspectFoundInverted(ok) == ~ok

InspectFoundNever(ok) == FALSE

InspectFound(ok) == ok

\* container.go:113-120  ContainerInspect: succeeds when the Engine has a
\* container of the name
Inspect ==
    /\ cpc = "inspect"
    /\ LET ok == engine.exists
       IN  /\ calls' = Append(calls, [api |-> "ContainerInspect", ok |-> ok])
           /\ IF InspectFound(ok)
              THEN Return("ok")
              ELSE cpc' = "prepare" /\ UNCHANGED <<cresult, hist>>
    /\ UNCHANGED <<revision, dcc, engine, runs>>
    /\ UNCHANGED <<imageVars, portVars, envVars>>

\* container.go:121-166  what may end the run between inspect and create:
\* GetContainerEnv and GetPortBindings return an error, GetPortBindings
\* panics, and (container.go:157-160 only) a volume fails to interpolate
PrepareOutcomes(rev) == {"ok", "env-err", "ports-err", "ports-panic"}
                        \cup (IF rev = RevNew THEN {"volume-err"} ELSE {})

\* container.go:121-166  env, config, port bindings, host config, mounts
Prepare ==
    /\ cpc = "prepare"
    /\ \E outcome \in PrepareOutcomes(revision) :
         CASE outcome = "ok"          -> cpc' = "create" /\ UNCHANGED <<cresult, hist>>
           [] outcome = "ports-panic" -> Return("panic")
           [] OTHER                   -> Return("err")
    /\ UNCHANGED <<revision, dcc, engine, runs, calls>>
    /\ UNCHANGED <<imageVars, portVars, envVars>>

\* container.go:170-172  if err != nil: the run returns "creating container"
CreateNeverAborts(ok) == FALSE

CreateAborts(ok) == ~ok

\* container.go:168-172  ContainerCreate: the Engine refuses a name in use and
\* may fail otherwise (no such image, ...)
Create ==
    /\ cpc = "create"
    /\ \E ok \in {TRUE, FALSE} :
        /\ ok => ~engine.exists
        /\ calls' = Append(calls, [api |-> "ContainerCreate", ok |-> ok])
        /\ engine' = IF ok THEN [exists |-> TRUE, settings |-> dcc.settings,
                                 started |-> FALSE]
                     ELSE engine
        /\ IF CreateAborts(ok)
           THEN Return("err")
           ELSE /\ cpc' = "start"
                /\ cresult' = cresult
                /\ hist' = [hist EXCEPT !.creates = IF ok THEN @ + 1 ELSE @]
    /\ UNCHANGED <<revision, dcc, runs>>
    /\ UNCHANGED <<imageVars, portVars, envVars>>

\* container.go:183 returns after the start; part_000:150 goes on to wait
AfterStart(rev) == IF rev = RevNew THEN "return" ELSE "wait"

\* container.go:174-183  ContainerStart of the created container
Start ==
    /\ cpc = "start"
    /\ \E ok \in BOOLEAN :
        /\ ok => engine.exists
        /\ calls' = Append(calls, [api |-> "ContainerStart", ok |-> ok])
        /\ engine' = IF ok THEN [engine EXCEPT !.started = TRUE] ELSE engine
        /\ IF ~ok
           THEN Return("err")
           ELSE IF AfterStart(revision) = "return"
                THEN /\ cpc' = "idle"
                     /\ cresult' = "ok"
                     /\ hist' = [hist EXCEPT !.succeeded = TRUE, !.starts = @ + 1]
                ELSE /\ cpc' = "wait"
                     /\ cresult' = cresult
                     /\ hist' = [hist EXCEPT !.starts = @ + 1]
    /\ UNCHANGED <<revision, dcc, runs>>
    /\ UNCHANGED <<imageVars, portVars, envVars>>

\* part_000:150-157  ContainerWait: an error from errCh ends the run with it,
\* a status from statusCh lets it return nil
Wait ==
    /\ cpc = "wait"
    /\ \E ok \in BOOLEAN :
        /\ calls' = Append(calls, [api |-> "ContainerWait", ok |-> ok])
        /\ Return(IF ok THEN "ok" ELSE "err")
    /\ UNCHANGED <<revision, dcc, engine, runs>>
    /\ UNCHANGED <<imageVars, portVars, envVars>>

NextContainer ==
    \/ RunBegin
    \/ Pull
    \/ Inspect
    \/ Prepare
    \/ Create
    \/ Start
    \/ Wait

SpecContainer == InitContainer /\ [][NextContainer]_vars

-----------------------------------------------------------------------------
(* GetPortBindings (src/container.go:190-270, src/unnamed/part_000:176-256). *)
(* Strings are sequences of one-character strings.                           *)

\* most entries of a ports map
MaxPorts == 2

Digits == <<"0", "1", "2", "3", "4", "5", "6", "7", "8", "9">>
IsDigit(c) == \E i \in 1..Len(Digits) : Digits[i] = c
DigitValue(c) == (CHOOSE i \in 1..Len(Digits) : Digits[i] = c) - 1

\* strings.Contains(s, c) for a one-character c
Contains(s, c) == \E i \in 1..Len(s) : s[i] = c

\* strings.Split(s, c): the pieces between the occurrences of c, always at
\* least one piece
RECURSIVE Split(_, _)
Split(s, c) ==
    IF ~Contains(s, c) THEN <<s>>
    ELSE LET i == CHOOSE j \in 1..Len(s) :
                     s[j] = c /\ \A k \in 1..(j - 1) : s[k] # c
         IN  <<SubSeq(s, 1, i - 1)>> \o Split(SubSeq(s, i + 1, Len(s)), c)

\* the value of a string of decimal digits
RECURSIVE DecimalValue(_)
DecimalValue(s) ==
    IF s = <<>> THEN 0
    ELSE 10 * DecimalValue(SubSeq(s, 1, Len(s) - 1)) + DigitValue(s[Len(s)])

\* strconv.Atoi on a string without a sign (a piece between dashes never has a
\* minus sign): an error unless it is a non-empty string of digits
Atoi(s) ==
    IF s # <<>> /\ \A i \in 1..Len(s) : IsDigit(s[i])
    THEN [ok |-> TRUE, val |-> DecimalValue(s)]
    ELSE [ok |-> FALSE, val |-> 0]

\* strconv.Itoa of a number >= 0
RECURSIVE Itoa(_)
Itoa(n) ==
    IF n < 10 THEN <<Digits[n + 1]>>
    ELSE Itoa(n \div 10) \o <<Digits[(n % 10) + 1]>>

\* container.go:233-235, 249-251  for i := start; i <= end; i++ { append Itoa(i) }
ItoaRangeExclusive(start, end) ==
    IF end <= start THEN <<>>
    ELSE [j \in 1..(end - start) |-> Itoa(start + j - 1)]

ItoaRange(start, end) ==
    IF end < start THEN <<>>
    ELSE [j \in 1..(end - start + 1) |-> Itoa(start + j - 1)]

\* strconv.ParseUint(s, 10, 16)
ParseUint16(s) ==
    IF Atoi(s).ok /\ Atoi(s).val <= 65535 THEN Atoi(s) ELSE [ok |-> FALSE, val |-> 0]

\* nat.ParsePortRangeToInt: the empty string is the range 0-0, a string
\* without a dash one port, otherwise start-end with end >= start
ParsePortRangeToInt(port) ==
    IF port = <<>> THEN [ok |-> TRUE, start |-> 0, end |-> 0]
    ELSE IF ~Contains(port, "-")
    THEN [ok |-> ParseUint16(port).ok,
          start |-> ParseUint16(port).val, end |-> ParseUint16(port).val]
    ELSE LET parts == Split(port, "-")
             a == ParseUint16(parts[1])
             b == ParseUint16(parts[2])
         IN  [ok |-> a.ok /\ b.ok /\ b.val >= a.val, start |-> a.val, end |-> b.val]

\* nat.NewPort(proto, port): "<port>/<proto>" or "<start>-<end>/<proto>"
NewPort(proto, port) ==
    LET r == ParsePortRangeToInt(port)
    IN  IF ~r.ok THEN [ok |-> FALSE, val |-> <<>>]
        ELSE IF r.start = r.end
        THEN [ok |-> TRUE, val |-> Itoa(r.start) \o <<"/">> \o proto]
        ELSE [ok |-> TRUE,
              val |-> Itoa(r.start) \o <<"-">> \o Itoa(r.end) \o <<"/">> \o proto]

\* container.go:193  the two sides of an entry differ in having a dash
DifferInRange(key, value) == Contains(key, "-") # Contains(value, "-")

\* container.go:205
DefaultProto == <<"t", "c", "p">>

\* container.go:214
HostIpAllInterfaces == <<"0", ".", "0", ".", "0", ".", "0">>

DefaultHostIp == <<"1", "2", "7", ".", "0", ".", "0", ".", "1">>

\* container.go:200-207
ParseKey(key) ==
    IF Contains(key, "/")
    THEN [containerPorts |-> Split(key, "/")[1], proto |-> Split(key, "/")[2]]
    ELSE [containerPorts |-> key, proto |-> DefaultProto]

\* container.go:209-216
ParseValue(value) ==
    IF Contains(value, ":")
    THEN [hostIp |-> Split(value, ":")[1], hostPorts |-> Split(value, ":")[2]]
    ELSE [hostIp |-> DefaultHostIp, hostPorts |-> value]

\* container.go:218-255  the two lists of ports; a bound that is not a number
\* and a container side without a second bound end the process
PortRanges(hostPorts, containerPorts) ==
    IF Contains(hostPorts, "-")
    THEN LET hp == Split(hostPorts, "-")
             cp == Split(containerPorts, "-")
         IN  IF ~Atoi(hp[1]).ok \/ ~Atoi(hp[2]).ok
             THEN [status |-> "panic", host |-> <<>>, container |-> <<>>]
             ELSE IF ~Atoi(cp[1]).ok \/ Len(cp) < 2
             THEN [status |-> "panic", host |-> <<>>, container |-> <<>>]
             ELSE IF ~Atoi(cp[2]).ok
             THEN [status |-> "panic", host |-> <<>>, container |-> <<>>]
             ELSE [status |-> "ok",
                   host |-> ItoaRange(Atoi(hp[1]).val, Atoi(hp[2]).val),
                   container |-> ItoaRange(Atoi(cp[1]).val, Atoi(cp[2]).val)]
    ELSE [status |-> "ok", host |-> <<hostPorts>>, container |-> <<containerPorts>>]

\* m[key] = value
MapPut(map, key, value) ==
    [k \in DOMAIN map \cup {key} |-> IF k = key THEN value ELSE map[k]]

\* container.go:257-266  the loop over hostPortRange, from index i on
RECURSIVE BindFrom(_, _, _, _, _, _)
BindFrom(map, i, proto, hostIp, hostRange, containerRange) ==
    IF i > Len(hostRange) THEN [status |-> "next", m |-> map]
    ELSE IF i > Len(containerRange) THEN [status |-> "panic", m |-> map]
    ELSE LET mappedPort == NewPort(proto, containerRange[i])
         IN  IF ~mappedPort.ok THEN [status |-> "err-port", m |-> <<>>]
             ELSE BindFrom(MapPut(map, mappedPort.val,
                                  << [HostIP |-> hostIp, HostPort |-> hostRange[i]] >>),
                           i + 1, proto, hostIp, hostRange, containerRange)

\* container.go:192-267  the loop body for one entry of the map
EntryResult(map, key, value) ==
    IF DifferInRange(key, value) THEN [status |-> "err-range", m |-> map]
    ELSE LET k == ParseKey(key)
             v == ParseValue(value)
             r == PortRanges(v.hostPorts, k.containerPorts)
         IN  IF r.status = "panic" THEN [status |-> "panic", m |-> map]
             ELSE BindFrom(map, 1, k.proto, v.hostIp, r.host, r.container)

PortKeys ==
    { <<"1">>, <<"1", "/", "t", "c", "p">>, <<"1", "/", "u">>, <<"x">>,
      <<"1", "-", "2">>, <<"1", "-", "2", "/", "u">>, <<"1", "/", "t", "-", "p">>,
      <<"2", "/", "u", "/", "x">> }
PortValues ==
    { <<"7">>, <<"h", ":", "7">>, <<"7", "-", "8">>, <<"h", ":", "7", "-", "8">>,
      <<"7", "-", "9">>, <<"7", "-", "x">> }

\* the ports maps: sets of at most n entries with distinct keys
RECURSIVE PortMapsUpTo(_)
PortMapsUpTo(n) ==
    IF n = 0 THEN {{}}
    ELSE LET smaller == PortMapsUpTo(n - 1)
         IN  smaller \cup
             { es \cup {e} : es \in smaller,
                             e \in [key : PortKeys, value : PortValues] }

PortMaps ==
    { es \in PortMapsUpTo(MaxPorts) : \A e1, e2 \in es : e1.key = e2.key => e1 = e2 }

InitPorts ==
    /\ portsIn \in PortMaps
    /\ ports = portsIn
    /\ m = <<>>
    /\ presult = "running"
    \* the other parts stay idle
    /\ dic = NIL /\ tcc = NIL /\ tenv = NIL /\ itarget = NIL
    /\ ipc = NIL /\ itag = 0 /\ execLog = <<>> /\ iresult = NIL
    /\ revision = NIL /\ dcc = NIL /\ engine = NIL /\ cpc = NIL
    /\ calls = <<>> /\ cresult = NIL /\ runs = 0 /\ hist = NIL
    /\ etarget = NIL /\ files = NIL /\ epc = NIL /\ eresult = NIL

\* container.go:192-267  one iteration, over any entry not yet visited
PortsIterate ==
    /\ presult = "running"
    /\ \E e \in ports :
        LET r == EntryResult(m, e.key, e.value)
        IN  /\ m' = r.m
            /\ ports' = ports \ {e}
            /\ presult' = IF r.status = "next" THEN "running" ELSE r.status
    /\ UNCHANGED portsIn
    /\ UNCHANGED <<imageVars, containerVars, envVars>>

\* container.go:269  the loop is over
PortsReturn ==
    /\ presult = "running"
    /\ ports = {}
    /\ presult' = "ok"
    /\ UNCHANGED <<ports, portsIn, m>>
    /\ UNCHANGED <<imageVars, containerVars, envVars>>

NextPorts ==
    \/ PortsIterate
    \/ PortsReturn

SpecPorts == InitPorts /\ [][NextPorts]_vars

-----------------------------------------------------------------------------
(* DockerContainerConfig.GetTargets' labels and GetContainerEnv              *)
(* (src/container.go:43-55, 272-303; src/unnamed/part_000:31-38, 258-271).   *)
(* A file's content is a sequence of pieces, "\n" being the line break.      *)

\* most env files a target names
MaxEnvFiles == 2

EnvFileNames == {"a.env", "b.env"}
EnvNames == {"X", "Y"}

\* the texts that occur in env files and in container_env, with their
\* interpolation markers
EnvTemplates ==
    { [text |-> "",       pre |-> "",     ref |-> ""],
      [text |-> "A=1",    pre |-> "A=1",  ref |-> ""],
      [text |-> "B={X}",  pre |-> "B=",   ref |-> "X"],
      [text |-> "CE=1",   pre |-> "CE=1", ref |-> ""],
      [text |-> "CE={X}", pre |-> "CE=",  ref |-> "X"] }
TemplateOf(text) == CHOOSE t \in EnvTemplates : t.text = text

FileContents ==
    { <<>>, <<"A=1">>, <<"A=1", "\n">>, <<"A=1", "\n", "B={X}">> }

ContainerConfigs ==
    [ Env          : UNION {[K -> {"val"}] : K \in SUBSET EnvNames},
      ContainerEnv : UNION {[K -> {"1", "{X}"}] : K \in SUBSET {"CE"}},
      EnvFiles     : SeqsUpTo(EnvFileNames, MaxEnvFiles),
      Labels       : {<<"team=a">>} ]

NoEnvTarget == [Env |-> <<>>, Labels |-> <<>>, Srcs |-> <<>>, Scripts |-> <<>>]

InitEnv ==
    /\ revision \in {RevOld, RevNew}
    /\ dcc \in ContainerConfigs
    /\ files \in UNION {[K -> FileContents] : K \in SUBSET EnvFileNames}
    /\ etarget = NoEnvTarget
    /\ epc = "config"
    /\ eresult = [status |-> "none", env |-> <<>>]
    \* the other parts stay idle
    /\ dic = NIL /\ tcc = NIL /\ tenv = NIL /\ itarget = NIL
    /\ ipc = NIL /\ itag = 0 /\ execLog = <<>> /\ iresult = NIL
    /\ engine = NIL /\ cpc = NIL
    /\ calls = <<>> /\ cresult = NIL /\ runs = 0 /\ hist = NIL
    /\ ports = {} /\ portsIn = {} /\ m = <<>> /\ presult = NIL

\* container.go:44-46  one label per container_env entry, in the order the map
\* is iterated
ContainerEnvLabels(order, cenv) ==
    [i \in 1..Len(order) |->
        [prefix |-> "container_env=", rest |-> order[i] \o "=" \o cenv[order[i]]]]

\* container.go:47-49  one label per env file, in declared order
EnvFileLabels(envFiles) ==
    [i \in 1..Len(envFiles) |-> [prefix |-> "env_file=", rest |-> envFiles[i]]]

UserLabels(labels) ==
    [i \in 1..Len(labels) |-> [prefix |-> "", rest |-> labels[i]]]

\* container.go:55 / part_000:38  the scripts of the target
ContainerScripts == [deploy |-> [Alias |-> {}]]

\* DockerContainerConfig.GetTargets: container.go adds the container_env and
\* env_file labels, part_000 passes the labels on as they are
ContainerGetTargets ==
    /\ epc = "config"
    /\ \E order \in Orders(DOMAIN dcc.ContainerEnv) :
        etarget' =
            [ Env     |-> dcc.Env,
              Labels  |-> IF revision = RevNew
                          THEN UserLabels(dcc.Labels)
                               \o ContainerEnvLabels(order, dcc.ContainerEnv)
                               \o EnvFileLabels(dcc.EnvFiles)
                          ELSE UserLabels(dcc.Labels),
              Srcs    |-> [_envs |-> dcc.EnvFiles],
              Scripts |-> ContainerScripts ]
    /\ epc' = "target"
    /\ UNCHANGED <<files, eresult>>
    /\ UNCHANGED <<imageVars, containerVars, portVars>>

\* the pieces of a line, joined
RECURSIVE Concat(_)
Concat(pieces) == IF pieces = <<>> THEN "" ELSE Head(pieces) \o Concat(Tail(pieces))

\* strings.Split(string(content), "\n")
ContentLines(content) ==
    LET ls == Split(content, "\n") IN [i \in 1..Len(ls) |-> Concat(ls[i])]

\* part_000:267  every line of the file is appended
OldFileLinesNoEmpty(content) == SelectSeq(ContentLines(content), LAMBDA l : l # "")

OldFileLines(content) == ContentLines(content)

\* part_000:261-268  the loop over target.Srcs["_envs"]
RECURSIVE OldEnvFromFiles(_, _)
OldEnvFromFiles(names, env) ==
    IF names = <<>> THEN [status |-> "ok", env |-> env]
    ELSE IF Head(names) \notin DOMAIN files THEN [status |-> "err", env |-> <<>>]
    ELSE OldEnvFromFiles(Tail(names), env \o OldFileLines(files[Head(names)]))

\* container.go:288-297  the lines of one file: empty ones skipped, the others
\* interpolated
RECURSIVE NewFileLines(_, _, _)
NewFileLines(lines, tenvs, env) ==
    IF lines = <<>> THEN [status |-> "ok", env |-> env]
    ELSE IF Head(lines) = "" THEN NewFileLines(Tail(lines), tenvs, env)
    ELSE LET r == Interpolate(TemplateOf(Head(lines)), tenvs)
         IN  IF ~r.ok THEN [status |-> "err", env |-> <<>>]
             ELSE NewFileLines(Tail(lines), tenvs, Append(env, r.val))

\* container.go:275-300  the loop over target.Labels
RECURSIVE NewEnvFromLabels(_, _, _)
NewEnvFromLabels(labels, tenvs, env) ==
    IF labels = <<>> THEN [status |-> "ok", env |-> env]
    ELSE LET label == Head(labels)
         IN  IF label.prefix = "container_env="
             THEN LET r == Interpolate(TemplateOf(label.rest), tenvs)
                  IN  IF ~r.ok THEN [status |-> "err", env |-> <<>>]
                      ELSE NewEnvFromLabels(Tail(labels), tenvs, Append(env, r.val))
             ELSE IF label.prefix = "env_file="
             THEN IF label.rest \notin DOMAIN files
                  THEN [status |-> "err", env |-> <<>>]
                  ELSE LET r == NewFileLines(ContentLines(files[label.rest]), tenvs, env)
                       IN  IF r.status # "ok" THEN r
                           ELSE NewEnvFromLabels(Tail(labels), tenvs, r.env)
             ELSE NewEnvFromLabels(Tail(labels), tenvs, env)

\* target.GetEnvironmentVariablesList: K=V for every variable, in the order
\* the map is iterated
EnvironmentVariablesList(order, env) ==
    [i \in 1..Len(order) |-> order[i] \o "=" \o env[order[i]]]

\* GetContainerEnv
GetContainerEnv ==
    /\ epc = "target"
    /\ IF revision = RevOld
       THEN \E order \in Orders(DOMAIN etarget.Env) :
              eresult' = OldEnvFromFiles(etarget.Srcs._envs,
                                         EnvironmentVariablesList(order, etarget.Env))
       ELSE eresult' = NewEnvFromLabels(etarget.Labels, etarget.Env, <<>>)
    /\ epc' = "done"
    /\ UNCHANGED <<etarget, files>>
    /\ UNCHANGED <<imageVars, containerVars, portVars>>

NextEnv ==
    \/ ContainerGetTargets
    \/ GetContainerEnv

SpecEnv == InitEnv /\ [][NextEnv]_vars

-----------------------------------------------------------------------------
(* Properties of the docker_image scripts, checked under SpecImage *)

\* the commands of the current run, without their outcomes
RECURSIVE Cmds(_)
Cmds(log) == IF log = <<>> THEN <<>> ELSE <<Head(log).args>> \o Cmds(Tail(log))

IsPrefix(a, b) == Len(a) <= Len(b) /\ SubSeq(b, 1, Len(a)) = a

DeployActive == iresult.script = "deploy"
DeployReturned == iresult.script = "deploy" /\ ipc = "idle" /\ iresult.status # "running"

\* <registry>/<image>:<tag>, written out
RefOf(tag) == dic.Registry \o "/img:" \o tag

\* the command sequence the deploy script is to execute for the configured tags
ExpectedDeploy ==
    << <<itarget.Tools.crane, "push", "/w/image.tar", RefOf(dic.Tags[1])>> >>
    \o [i \in 1..(Len(dic.Tags) - 1) |->
          <<itarget.Tools.crane, "tag", RefOf(dic.Tags[1]), RefOf(dic.Tags[i + 1])>>]

\* C1: with a registry available, the deploy script executes crane push of the
\* first tag as its first command and exactly once; the crane tag commands of
\* the second and later tags follow in configured order, one each and only
\* after the push (and every earlier tag) returned successfully; a run that
\* returns success has executed exactly push, tag t2, ..., tag tn; with a
\* single tag (the default latest included) no crane tag is executed.
C1_PushThenTags ==
    (DeployActive /\ dic.Registry # NIL) =>
        /\ IsPrefix(Cmds(execLog), ExpectedDeploy)
        /\ DeployReturned => Len(execLog) >= 1
        /\ \A i \in 2..Len(execLog) : \A j \in 1..(i - 1) : execLog[j].ok
        /\ (DeployReturned /\ iresult.status = "ok") => Cmds(execLog) = ExpectedDeploy
        /\ Len(dic.Tags) = 1 => Len(execLog) <= 1

C1_Witness ==
    /\ DeployReturned /\ iresult.status = "ok"
    /\ Len(dic.Tags) = 2 /\ dic.Tags[1] # dic.Tags[2]
    /\ Len(execLog) = 2 /\ execLog[2].args[2] = "tag"

\* whether every configured build arg can be interpolated against the target env
BuildArgsResolvable ==
    \A k \in DOMAIN dic.BuildArgs :
        dic.BuildArgs[k].ref = "" \/ dic.BuildArgs[k].ref \in DOMAIN tenv

\* K=V with V interpolated, written out
ExpectedPair(k) ==
    LET t == dic.BuildArgs[k]
    IN  k \o "=" \o (IF t.ref = "" THEN t.pre ELSE t.pre \o tenv[t.ref])

ExpectedContextDir ==
    CASE dic.Context = NIL   -> "/w"
      [] dic.Context = "."   -> "/w"
      [] dic.Context = "ctx" -> "/w/ctx"

\* the one command of the build script: the fixed arguments in order, then one
\* --build-arg pair per configured build arg, none before --file
BuildCommandShape(args) ==
    LET n == Cardinality(DOMAIN dic.BuildArgs)
    IN  /\ Len(args) = 7 + 2 * n
        /\ SubSeq(args, 1, 7) =
              << itarget.Tools.buildx, "build", ExpectedContextDir,
                 "--output", "type=docker,dest=/w/image.tar",
                 "--file", "Dockerfile" >>
        /\ \A i \in 1..n : args[6 + 2 * i] = "--build-arg"
        /\ \A k \in DOMAIN dic.BuildArgs :
              Cardinality({i \in 1..n : args[7 + 2 * i] = ExpectedPair(k)}) = 1

BuildReturned == iresult.script = "build" /\ ipc = "idle"

\* C8 as stated: the build script executes exactly one command, of the shape
\* above, whatever the build args are.
C8_AlwaysOneCommand ==
    BuildReturned => (Len(execLog) = 1 /\ BuildArgsResolvable
                      /\ BuildCommandShape(execLog[1].args))

\* C8 (amended): when every build arg interpolates, the build script executes
\* exactly one command, of the shape above; when one does not, it returns an
\* error and executes no command.
C8_OneCommandUnlessInterpolationFails ==
    BuildReturned =>
        IF BuildArgsResolvable
        THEN Len(execLog) = 1 /\ BuildCommandShape(execLog[1].args)
        ELSE execLog = <<>> /\ iresult.status = "err"

C8_Witness ==
    /\ BuildReturned /\ iresult.status = "ok"
    /\ DOMAIN dic.BuildArgs = {"A", "B"}
    /\ dic.BuildArgs["A"].ref = "X" /\ dic.BuildArgs["B"].ref = ""
    /\ dic.Context = "ctx"
    /\ Len(execLog) = 1 /\ execLog[1].args[11] = "B=1"

\* the scripts an alias designates
Designated(scripts, alias) == {n \in DOMAIN scripts : alias \in scripts[n].Alias}

\* C9: a docker_image target has exactly the scripts build, deploy and load and
\* the alias push designates exactly the deploy script; a docker_container
\* target has exactly the script deploy.
C9_ScriptsAndAlias ==
    /\ (ipc \in {"idle", "push", "tag", "crashed"}) =>
          /\ DOMAIN itarget.Scripts = {"build", "deploy", "load"}
          /\ Designated(itarget.Scripts, "push") = {"deploy"}
    /\ (epc \in {"target", "done"}) => DOMAIN etarget.Scripts = {"deploy"}

\* C10: a failing command is the last one the deploy script executes and makes
\* it return the error: after a failed push no tag is executed, after a failed
\* tag no later tag; the script returns success only when the push and the tag
\* command of every further tag were executed and succeeded.
C10_FailureAborts ==
    DeployActive =>
        /\ \A i \in 1..Len(execLog) :
              ~execLog[i].ok => /\ i = Len(execLog)
                                /\ ipc = "idle"
                                /\ iresult.status = "err"
        /\ iresult.status = "ok" =>
              /\ Len(execLog) = Len(dic.Tags)
              /\ \A i \in 1..Len(execLog) : execLog[i].ok

C10_Witness ==
    /\ DeployReturned /\ iresult.status = "err"
    /\ Len(dic.Tags) = 2
    /\ Len(execLog) = 1 /\ ~execLog[1].ok

\* a tool is configured nowhere: no per-target override, no host toolchain
ToolMissing(name, override) == override = NIL /\ name \notin DOMAIN tcc

\* the tool the target is to have: the override when given, else the host's
ExpectedTool(name, override) == IF override # NIL THEN override ELSE tcc[name]

C13_RegistryResolution ==
    [][ /\ (ipc = "idle" /\ iresult'.script = "deploy") =>
            IF dic.Registry # NIL
            THEN ipc' = "push" /\ dic'.Registry = dic.Registry
            ELSE IF "DOCKER_REGISTRY" \in DOMAIN tenv
            THEN ipc' = "push" /\ dic'.Registry = tenv["DOCKER_REGISTRY"]
            ELSE /\ iresult'.status = "err" /\ ipc' = "idle"
                 /\ execLog' = <<>> /\ dic'.Registry = NIL
        /\ (ipc = "push") =>
            /\ Len(execLog') = 1
            /\ execLog'[1].args[2] = "push"
            /\ execLog'[1].args[4] = dic.Registry \o "/img:" \o dic.Tags[1]
      ]_vars

C13_Witness ==
    /\ iresult.script = "deploy" /\ ipc = "tag"
    /\ "DOCKER_REGISTRY" \in DOMAIN tenv /\ dic.Registry = tenv["DOCKER_REGISTRY"]
    /\ Len(execLog) = 1 /\ execLog[1].ok
    /\ execLog[1].args[4] = "val/img:" \o dic.Tags[1]

\* C15: the load script of a returned target never crashes, whether it runs
\* before deploy, after deploy or without deploy, and it executes
\* buildx load <cwd>/image.tar <ref> with the reference
\* <registry>/<image>:<first tag> that the deploy script pushes.
C15_LoadRunsInAnyOrder ==
    (ipc \in {"idle", "crashed"} /\ iresult.script = "load") =>
        /\ ipc = "idle" /\ iresult.status \in {"ok", "err"}
        /\ Cmds(execLog) =
              << <<itarget.Tools.buildx, "load", "/w/image.tar", RefOf(dic.Tags[1])>> >>

-----------------------------------------------------------------------------
(* Properties of the docker_container deploy script, checked under           *)
(* SpecContainer                                                             *)

\* the Engine API calls of the current run, without their outcomes
RECURSIVE Apis(_)
Apis(log) == IF log = <<>> THEN <<>> ELSE <<Head(log).api>> \o Apis(Tail(log))

Called(api) == \E i \in 1..Len(calls) : calls[i].api = api
InspectSucceeded ==
    \E i \in 1..Len(calls) : calls[i].api = "ContainerInspect" /\ calls[i].ok
FoundNoContainer ==
    \E i \in 1..Len(calls) : calls[i].api = "ContainerInspect" /\ ~calls[i].ok
RunReturned == cpc = "idle" /\ cresult \in {"ok", "err", "panic"}

\* C2: when ContainerInspect succeeds the run returns success at once, without
\* ContainerCreate or ContainerStart, and the Engine's container is as it was
\* when the run began, whatever settings it was made from.
C2_ExistingContainerLeftAlone ==
    InspectSucceeded =>
        /\ cpc = "idle" /\ cresult = "ok"
        /\ calls[Len(calls)].api = "ContainerInspect"
        /\ ~Called("ContainerCreate") /\ ~Called("ContainerStart")
        /\ engine = hist.atBegin

C2_Witness ==
    /\ InspectSucceeded /\ RunReturned
    /\ engine.exists /\ engine.settings # dcc.settings /\ ~engine.started

\* C3: with an Engine whose ContainerInspect finds every container that
\* exists, ContainerCreate succeeds at most once over all the runs, and a run
\* that starts after a run returned success calls neither ContainerCreate nor
\* ContainerStart.
C3_IdempotentOverRuns ==
    /\ hist.creates <= 1
    /\ (hist.afterSuccess /\ cresult # "none") =>
          ~Called("ContainerCreate") /\ ~Called("ContainerStart")

C3_Witness ==
    /\ runs >= 2 /\ RunReturned /\ cresult = "ok"
    /\ hist.afterSuccess /\ hist.creates = 1 /\ InspectSucceeded

\* the Engine calls each revision's Run makes when nothing ends it early
RevisionCalls(rev) ==
    IF rev = RevNew
    THEN <<"ImagePull", "ContainerInspect", "ContainerCreate", "ContainerStart">>
    ELSE <<"ContainerInspect", "ContainerCreate", "ContainerStart", "ContainerWait">>

\* C4 as stated: a run that found no container (and returned success) has
\* called pull, inspect, create, start and wait, in this order.
C4_FiveCallsInOrder ==
    (RunReturned /\ cresult = "ok" /\ FoundNoContainer) =>
        Apis(calls) = <<"ImagePull", "ContainerInspect", "ContainerCreate",
                        "ContainerStart", "ContainerWait">>

\* C4 (amended): the calls of a run are, in order, a prefix of pull, inspect,
\* create, start (container.go) or of inspect, create, start, wait (part_000);
\* a call is made only after the one before it returned without ending the
\* run (inspect: with an error, the others: without); a run that found no
\* container and returned success has made all four calls of its revision.
C4_CallsInRevisionOrder ==
    /\ IsPrefix(Apis(calls), RevisionCalls(revision))
    /\ \A i \in 2..Len(calls) :
          IF calls[i - 1].api = "ContainerInspect"
          THEN ~calls[i - 1].ok
          ELSE calls[i - 1].ok
    /\ (RunReturned /\ cresult = "ok" /\ FoundNoContainer) =>
          Apis(calls) = RevisionCalls(revision)

C4_Witness ==
    /\ RunReturned /\ cresult = "ok" /\ FoundNoContainer
    /\ revision = RevNew /\ Len(calls) = 4
    /\ engine.exists /\ engine.started

\* C16: over any sequence of deploy runs, a run that returns success leaves the
\* container of the configured name in existence, and when these runs created
\* it, ContainerStart has succeeded for it in this run or in an earlier one:
\* no run reports success for a container created but never started.
C16_SuccessMeansStarted ==
    (cpc = "idle" /\ cresult = "ok") =>
        /\ engine.exists
        /\ (hist.creates > 0) => (hist.starts > 0 /\ engine.started)

-----------------------------------------------------------------------------
(* Properties of GetPortBindings, checked under SpecPorts *)

PortsReturned == presult \in {"ok", "err-range", "err-port", "panic"}

\* exactly one side of the entry is written with a dash
OneSideRanged(e) == Contains(e.key, "-") # Contains(e.value, "-")

\* C5: GetPortBindings returns a non-nil error whenever some entry of the map
\* has a dash on exactly one of its two sides, and the range check rejects no
\* map whose entries all agree.
C5_MismatchIsError ==
    PortsReturned =>
        /\ (\E e \in portsIn : OneSideRanged(e)) => presult \in {"err-range", "err-port"}
        /\ (\A e \in portsIn : ~OneSideRanged(e)) => presult # "err-range"

Count(s, c) == Cardinality({i \in 1..Len(s) : s[i] = c})

\* an entry with key C or C/P and value H or IP:H
NonRangeEntry(e) ==
    /\ ~Contains(e.key, "-") /\ ~Contains(e.value, "-")
    /\ Count(e.key, "/") <= 1 /\ Count(e.value, ":") <= 1

ContainerSide(e) == Split(e.key, "/")[1]
ProtoOf(e) == IF Contains(e.key, "/") THEN Split(e.key, "/")[2] ELSE <<"t", "c", "p">>
HostSide(e) == IF Contains(e.value, ":") THEN Split(e.value, ":")[2] ELSE e.value
HostIpOf(e) ==
    IF Contains(e.value, ":") THEN Split(e.value, ":")[1]
    ELSE <<"1", "2", "7", ".", "0", ".", "0", ".", "1">>

\* the key C/P of a non-range entry and its binding
ExpectedKey(e) == ContainerSide(e) \o <<"/">> \o ProtoOf(e)
ExpectedBinding(e) == [HostIP |-> HostIpOf(e), HostPort |-> HostSide(e)]

\* entry r designates the container port and protocol of the non-range entry e
\* as well: the same port, or a range a-b that holds it
Rival(r, e) ==
    /\ r # e
    /\ ProtoOf(r) = ProtoOf(e)
    /\ \/ ContainerSide(r) = ContainerSide(e)
       \/ LET b == Split(ContainerSide(r), "-")
              c == Atoi(ContainerSide(e))
          IN  /\ Len(b) >= 2 /\ Atoi(b[1]).ok /\ Atoi(b[2]).ok /\ c.ok
              /\ Atoi(b[1]).val <= c.val /\ c.val <= Atoi(b[2]).val

\* C6 as stated: every non-range entry has its key C/P in the result, bound to
\* exactly its own HostPort and HostIP, and the entries give no other keys.
C6_EveryEntryKeepsItsBinding ==
    presult = "ok" =>
        /\ \A e \in portsIn : NonRangeEntry(e) =>
              /\ ExpectedKey(e) \in DOMAIN m
              /\ m[ExpectedKey(e)] = <<ExpectedBinding(e)>>
        /\ (\A e \in portsIn : NonRangeEntry(e)) =>
              DOMAIN m = {ExpectedKey(e) : e \in portsIn}

\* C6 (amended): when GetPortBindings returns a map, every non-range entry has
\* its key C/P in it with exactly one binding, which is the entry's own
\* HostPort and HostIP unless another entry designates the same container port
\* and protocol; a map of non-range entries gives no other keys.
C6_BindingUnlessOverwritten ==
    presult = "ok" =>
        /\ \A e \in portsIn : NonRangeEntry(e) =>
              /\ ExpectedKey(e) \in DOMAIN m
              /\ Len(m[ExpectedKey(e)]) = 1
              /\ \/ m[ExpectedKey(e)] = <<ExpectedBinding(e)>>
                 \/ \E r \in portsIn : Rival(r, e)
        /\ (\A e \in portsIn : NonRangeEntry(e)) =>
              DOMAIN m = {ExpectedKey(e) : e \in portsIn}

C6_Witness ==
    /\ presult = "ok"
    /\ portsIn = { [key |-> <<"1">>, value |-> <<"7">>],
                   [key |-> <<"1", "/", "u">>, value |-> <<"h", ":", "7">>] }
    /\ m[<<"1", "/", "u">>] = << [HostIP |-> <<"h">>, HostPort |-> <<"7">>] >>
    /\ m[<<"1", "/", "t", "c", "p">>][1].HostPort = <<"7">>

\* a side a-b of an entry, with numbers a <= b
RegularRange(s) ==
    /\ Count(s, "-") = 1
    /\ Atoi(Split(s, "-")[1]).ok /\ Atoi(Split(s, "-")[2]).ok
    /\ Atoi(Split(s, "-")[1]).val <= Atoi(Split(s, "-")[2]).val
FirstOf(s) == Atoi(Split(s, "-")[1]).val
LastOf(s) == Atoi(Split(s, "-")[2]).val

\* an entry with key a-b or a-b/P and value c-d or IP:c-d, b-a = d-c >= 0
RangeEntry(e) ==
    /\ Count(e.key, "/") <= 1 /\ Count(e.value, ":") <= 1
    /\ RegularRange(ContainerSide(e)) /\ RegularRange(HostSide(e))
    /\ LastOf(ContainerSide(e)) - FirstOf(ContainerSide(e))
         = LastOf(HostSide(e)) - FirstOf(HostSide(e))

\* the offsets 0..b-a of a range entry, and the key and binding at offset i
RangeSpan(e) == 0..(LastOf(ContainerSide(e)) - FirstOf(ContainerSide(e)))
RangeKey(e, i) == Itoa(FirstOf(ContainerSide(e)) + i) \o <<"/">> \o ProtoOf(e)
RangeBinding(e, i) ==
    [HostIP |-> HostIpOf(e), HostPort |-> Itoa(FirstOf(HostSide(e)) + i)]

\* entry r designates container port p of protocol proto: as its single port,
\* or within its range
Designates(r, proto, p) ==
    /\ ProtoOf(r) = proto
    /\ \/ Atoi(ContainerSide(r)).ok /\ Atoi(ContainerSide(r)).val = p
       \/ /\ RegularRange(ContainerSide(r))
          /\ FirstOf(ContainerSide(r)) <= p /\ p <= LastOf(ContainerSide(r))

\* C11 as stated: a range entry a-b -> c-d binds container port a+i to host
\* port c+i for every i in 0..b-a, each with exactly one binding that carries
\* the entry's host IP and protocol, and the entry gives no other key.
C11_EveryRangePortBound ==
    presult = "ok" =>
        /\ \A e \in portsIn : RangeEntry(e) =>
              \A i \in RangeSpan(e) :
                  /\ RangeKey(e, i) \in DOMAIN m
                  /\ m[RangeKey(e, i)] = <<RangeBinding(e, i)>>
        /\ (\A e \in portsIn : RangeEntry(e)) =>
              DOMAIN m = UNION {{RangeKey(e, i) : i \in RangeSpan(e)} : e \in portsIn}

\* C11 (amended): when GetPortBindings returns a map, every container port
\* a+i of a range entry is a key of it with exactly one binding, which is the
\* entry's host IP and host port c+i unless another entry designates the same
\* container port and protocol; a map of range entries gives no other keys.
C11_RangeBoundUnlessOverwritten ==
    presult = "ok" =>
        /\ \A e \in portsIn : RangeEntry(e) =>
              \A i \in RangeSpan(e) :
                  /\ RangeKey(e, i) \in DOMAIN m
                  /\ Len(m[RangeKey(e, i)]) = 1
                  /\ \/ m[RangeKey(e, i)] = <<RangeBinding(e, i)>>
                     \/ \E r \in portsIn \ {e} :
                            Designates(r, ProtoOf(e), FirstOf(ContainerSide(e)) + i)
        /\ (\A e \in portsIn : RangeEntry(e)) =>
              DOMAIN m = UNION {{RangeKey(e, i) : i \in RangeSpan(e)} : e \in portsIn}

C11_Witness ==
    /\ presult = "ok"
    /\ portsIn = { [key |-> <<"1", "-", "2", "/", "u">>,
                    value |-> <<"h", ":", "7", "-", "8">>] }
    /\ DOMAIN m = { <<"1", "/", "u">>, <<"2", "/", "u">> }
    /\ m[<<"1", "/", "u">>] = << [HostIP |-> <<"h">>, HostPort |-> <<"7">>] >>
    /\ m[<<"2", "/", "u">>] = << [HostIP |-> <<"h">>, HostPort |-> <<"8">>] >>

\* C14: GetPortBindings is total: for every ports map it returns a port map or
\* an error value, and never ends the process with a panic or an index out of
\* range.
C14_NeverPanics == presult \in {"running", "ok", "err-range", "err-port"}

-----------------------------------------------------------------------------
(* Properties of GetContainerEnv, checked under SpecEnv *)

\* the lines of the named files, files in the given order, lines in file order
RECURSIVE AllFileLines(_)
AllFileLines(names) ==
    IF names = <<>> THEN <<>>
    ELSE ContentLines(files[Head(names)]) \o AllFileLines(Tail(names))

\* a text with its {VAR} references replaced by the target env's values
Resolved(text) ==
    LET t == TemplateOf(text)
    IN  IF t.ref = "" THEN t.pre ELSE t.pre \o etarget.Env[t.ref]

TargetEnvEntries == {k \o "=" \o etarget.Env[k] : k \in DOMAIN etarget.Env}
ContainerEnvEntries ==
    {Resolved(k \o "=" \o dcc.ContainerEnv[k]) : k \in DOMAIN dcc.ContainerEnv}

\* seq starts with the members of set S, each once, in some order, and goes on
\* with the sequence rest
HeadsThenRest(seq, S, rest) ==
    LET n == Cardinality(S)
    IN  /\ Len(seq) = n + Len(rest)
        /\ {seq[i] : i \in 1..n} = S
        /\ SubSeq(seq, n + 1, Len(seq)) = rest

\* C7 as stated: the result is the target's environment variables followed by
\* the lines of the env files, files in declared order, every line verbatim.
C7_TargetEnvThenVerbatimLines ==
    eresult.status = "ok" =>
        HeadsThenRest(eresult.env, TargetEnvEntries, AllFileLines(dcc.EnvFiles))

\* C7 (amended): in part_000 the result is as stated, empty lines included; in
\* container.go it holds no target environment variable: it is the
\* interpolated container_env entries followed by the env files' lines in the
\* same order, without the empty lines and each interpolated.
C7_EnvPerRevision ==
    eresult.status = "ok" =>
        IF revision = RevOld
        THEN HeadsThenRest(eresult.env, TargetEnvEntries, AllFileLines(dcc.EnvFiles))
        ELSE LET kept == SelectSeq(AllFileLines(dcc.EnvFiles), LAMBDA l : l # "")
             IN  HeadsThenRest(eresult.env, ContainerEnvEntries,
                               [i \in 1..Len(kept) |-> Resolved(kept[i])])

C7_Witness ==
    /\ revision = RevOld /\ eresult.status = "ok"
    /\ dcc.EnvFiles = <<"b.env", "a.env">>
    /\ eresult.env = <<"X=val", "A=1", "", "A=1", "B={X}">>

=============================================================================
